---- MODULE Spec2Model ----
(***************************************************************************)
(* CrimeLens: the hotspot pipeline (ml_module.py), the report's hotspot    *)
(* table (report_generator.py), the dashboard session (app.py) and the     *)
(* account store (db.py).                                                  *)
(*                                                                         *)
(* Spec           the dashboard session: one action per script rerun.      *)
(* SpecForecast   forecast_hotspot_trends applied to bounded inputs.       *)
(* SpecDetector   detect_hotspots_dbscan / detect_hotspots_kmeans applied  *)
(*                to bounded inputs (k-means twice in a row per input).    *)
(* SpecSignUp     sign_up called from concurrent sessions.                 *)
(***************************************************************************)
EXTENDS Integers, Sequences, FiniteSets, TLC

VARIABLES
    session_state,   \* st.session_state: crime_data, hotspot_clusters, pdf_data, uploaded_file_name
    uploaded_file,   \* the file_uploader widget's current value
    view,            \* what the last script rerun did and rendered
    seed_stream,     \* the draws RandomState(42) yields (fixed, value unknown to the model)
    np_global,       \* position of numpy's process-wide random stream
    data_cache,      \* the entries st.cache_data holds for load_data (one per process)
    inp,             \* arguments of the function under direct invocation
    out,             \* results of its successive invocations
    users_collection,\* db.users: the documents of the account store, in insertion order
    signup           \* per session: where its sign_up call stands and what it returned

vars == <<session_state, uploaded_file, view, seed_stream, np_global, data_cache, inp, out, users_collection, signup>>

----------------------------------------------------------------------------
(* Python values *)

\* Python's None and a present value: an optional is a sequence of length 0 or 1.
None == << >>
Some(x) == <<x>>
IsNone(o) == o = << >>
Get(o) == o[1]

Abs(x) == IF x < 0 THEN -x ELSE x
SetMin(S) == CHOOSE x \in S : \A y \in S : x <= y
SetMax(S) == CHOOSE x \in S : \A y \in S : x >= y
Range(s) == {s[i] : i \in DOMAIN s}

RECURSIVE SumSeq(_)
SumSeq(s) == IF s = << >> THEN 0 ELSE Head(s) + SumSeq(Tail(s))

\* A table row (one observation) as loaded, and with the `cluster` column the
\* detectors attach.
RawRow(lat, lon, type, dt) ==
    [latitude |-> lat, longitude |-> lon, crime_type |-> type, datetime |-> dt]
Row(lat, lon, type, dt, label) ==
    [latitude |-> lat, longitude |-> lon, crime_type |-> type, datetime |-> dt, cluster |-> label]

----------------------------------------------------------------------------
(* Bounds of the model and constants of the program *)

HoursPerDay == 24        \* the 'D' (calendar day) frequency, timestamps counted in hours
MinSeriesLen == 14       \* "Need at least two weeks of data"
MaxObs == 2              \* rows of a labeled table handed to the forecaster
MaxHorizon == 2          \* forecast_days ranges over 1..MaxHorizon
MaxCoord == 2            \* latitudes handed to the detectors: 0..MaxCoord and Turn
Turn == 64               \* coordinate units in 2*pi: a coordinate k stands for the value k*2*pi/Turn
MaxPts == 4              \* rows of a table handed to the detectors
MaxEps == 2              \* eps ranges over 0..MaxEps (0 is out of range)
MaxMinSamples == 3       \* min_samples ranges over 0..MaxMinSamples (0 is out of range)
MaxK == 3                \* n_clusters ranges over 0..MaxK (0 is out of range)
NumStreams == 2          \* candidate values of the stream that seed 42 yields

HourSamples == {0, HoursPerDay - 1}   \* times of day sampled: midnight and the last hour
\* observation days sampled: the spans around the two-week minimum and short ones
DaySamples == {0, 1, MinSeriesLen - 2, MinSeriesLen - 1, MinSeriesLen}

----------------------------------------------------------------------------
(* ml_module.py: forecast_hotspot_trends *)

\* The calendar date of a timestamp (.dt.date / .date()), as a day number.
DateOf(ts) == ts \div HoursPerDay

\* cluster_data.resample('D').size(): bins of one calendar day, closed on the left,
\* from the day of the earliest timestamp to the day of the latest one; each bin
\* carries the number of rows that fall in it. An empty frame gives an empty series.
DailyCountsGapped(cluster_data) ==
    \* groupby(date).size(): days without rows are left out
    LET days == {DateOf(cluster_data[j].datetime) : j \in DOMAIN cluster_data}
        RECURSIVE build(_)
        build(S) == IF S = {} THEN << >>
                    ELSE LET d == SetMin(S)
                         IN <<[datetime |-> d * HoursPerDay,
                               crime_count |-> Cardinality({j \in DOMAIN cluster_data :
                                                   DateOf(cluster_data[j].datetime) = d})]>>
                            \o build(S \ {d})
    IN build(days)

DailyCounts(cluster_data) ==
    IF cluster_data = << >> THEN << >>
    ELSE LET ts == {cluster_data[j].datetime : j \in DOMAIN cluster_data}
             first == SetMin(ts) - (SetMin(ts) % HoursPerDay)
             last == SetMax(ts) + (HoursPerDay - (SetMax(ts) % HoursPerDay))
             n == (last - first) \div HoursPerDay
         IN [i \in 1..n |->
                [datetime |-> first + (i - 1) * HoursPerDay,
                 crime_count |-> Cardinality({j \in DOMAIN cluster_data :
                                     /\ first + (i - 1) * HoursPerDay <= cluster_data[j].datetime
                                     /\ cluster_data[j].datetime < first + i * HoursPerDay})]]

\* What statsmodels can do with SARIMAX(...).fit(disp=False).get_forecast(steps):
\*   raises         an exception during construction, fitting or forecasting;
\*   not_converged  the optimizer stops without converging: fit() emits a
\*                  ConvergenceWarning and returns its results all the same;
\*   converged      a converged fit.
\* A returned forecast has a point value and a non-negative interval half width.
LibOutcomes ==
    {[kind |-> "raises", mean |-> 0, se |-> 0]}
    \cup [kind : {"converged", "not_converged"}, mean : {1}, se : {0, 1}]

\* results.get_forecast(steps): predicted_mean and conf_int() for the `steps` days
\* after the last index of the series; conf_int's first column is the lower bound.
GetForecast(daily_counts, steps, lib) ==
    LET lastday == daily_counts[Len(daily_counts)].datetime
    IN [i \in 1..steps |->
           [index |-> lastday + i * HoursPerDay,
            predicted_mean |-> lib.mean,
            conf_int |-> <<lib.mean - lib.se * i, lib.mean + lib.se * i>>]]

\* forecast_df: 'forecast', 'lower_ci' = conf_int column 0, 'upper_ci' = column 1.
ForecastFrameSwapped(forecast) ==
    [i \in DOMAIN forecast |->
        [index |-> forecast[i].index,
         forecast |-> forecast[i].predicted_mean,
         lower_ci |-> forecast[i].conf_int[2],
         upper_ci |-> forecast[i].conf_int[1]]]

ForecastFrame(forecast) ==
    [i \in DOMAIN forecast |->
        [index |-> forecast[i].index,
         forecast |-> forecast[i].predicted_mean,
         lower_ci |-> forecast[i].conf_int[1],
         upper_ci |-> forecast[i].conf_int[2]]]

\* The (history, forecast) pair the function returns; `raised` is the exception
\* that escapes to the caller, if any.
Returned(history_df, forecast_df) ==
    [raised |-> None, history_df |-> history_df, forecast_df |-> forecast_df]

InsufficientDataOffByOne(daily_counts) == Len(daily_counts) < MinSeriesLen - 1

\* if len(daily_counts) < 14: return None, None
InsufficientData(daily_counts) == Len(daily_counts) < MinSeriesLen

\* A variant that fails fast on a label without rows instead of returning.
forecast_hotspot_trends_failfast(hotspot_data, cluster_id, forecast_days, lib) ==
    LET InCluster(r) == r.cluster = cluster_id
        cluster_data == SelectSeq(hotspot_data, InCluster)
        daily_counts == DailyCounts(cluster_data)
    IN IF cluster_data = << >>
       THEN [raised |-> Some("EmptyClusterError"), history_df |-> None, forecast_df |-> None]
       ELSE IF InsufficientData(daily_counts) THEN Returned(None, None)
       ELSE IF lib.kind = "raises" THEN Returned(None, None)
       ELSE Returned(Some(daily_counts),
                     Some(ForecastFrame(GetForecast(daily_counts, forecast_days, lib))))

forecast_hotspot_trends(hotspot_data, cluster_id, forecast_days, lib) ==
    LET InCluster(r) == r.cluster = cluster_id
        cluster_data == SelectSeq(hotspot_data, InCluster)
        daily_counts == DailyCounts(cluster_data)
    IN IF InsufficientData(daily_counts) THEN Returned(None, None)
       ELSE IF lib.kind = "raises" THEN Returned(None, None)       \* except Exception
       ELSE Returned(Some(daily_counts),
                     Some(ForecastFrame(GetForecast(daily_counts, forecast_days, lib))))

----------------------------------------------------------------------------
(* ml_module.py: detect_hotspots_dbscan *)

\* A DataFrame: its column names and its rows.
AllColumns == {"latitude", "longitude", "crime_type", "datetime"}
Frame(rows) == [columns |-> AllColumns, rows |-> rows]

\* What a detector call yields: the labeled rows, or the exception that escapes.
Labeled(rows) == [raised |-> None, data |-> Some(rows)]
Raises(err) == [raised |-> Some(err), data |-> None]

\* A variant that does not look at the columns.
HasCoordsUnchecked(data) == TRUE

\* data[['latitude', 'longitude']] raises KeyError when a column is missing.
HasCoords(data) == {"latitude", "longitude"} \subseteq data.columns

\* data['cluster'] = labels
WithLabels(rows, labels) ==
    [i \in DOMAIN rows |-> Row(rows[i].latitude, rows[i].longitude, rows[i].crime_type,
                               rows[i].datetime, labels[i])]

\* metric='haversine' applied to the stored coordinate values: the metric takes
\* [latitude, longitude] in radians and the code hands it the columns as they are
\* (degrees). The modelled points have equal longitude, where the formula
\* 2*asin(sqrt(sin^2(dlat/2))) is the distance from dlat to the nearest multiple
\* of 2*pi. Distances and eps are counted in units of 2*pi/Turn.
Haversine(p, q) ==
    LET d == Abs(p.latitude - q.latitude) % Turn
    IN IF d <= Turn - d THEN d ELSE Turn - d

\* radius_neighbors(X, eps): the points within eps of point i, point i included.
Neighborhood(rows, i, eps) == {j \in DOMAIN rows : Haversine(rows[i], rows[j]) <= eps}

\* core_samples: n_neighbors >= min_samples, the point itself counted.
IsCore(rows, i, eps, min_samples) ==
    Cardinality(Neighborhood(rows, i, eps)) >= min_samples

\* The elements of a finite set of integers in ascending order.
RECURSIVE Ascending(_)
Ascending(S) == IF S = {} THEN << >> ELSE <<SetMin(S)>> \o Ascending(S \ {SetMin(S)})

\* dbscan_inner: every unlabeled core point, in row order, seeds a new cluster that
\* is grown depth-first over a stack; only core points push their neighbours.
DbscanLabels(rows, eps, min_samples) ==
    LET n == Len(rows)
        RECURSIVE Grow(_, _, _, _)
        Grow(i, stack, labels, label_num) ==
            LET fresh == labels[i] = -1
                l1 == IF fresh THEN [labels EXCEPT ![i] = label_num] ELSE labels
                s1 == IF fresh /\ IsCore(rows, i, eps, min_samples)
                      THEN stack \o Ascending({v \in Neighborhood(rows, i, eps) : l1[v] = -1})
                      ELSE stack
            IN IF s1 = << >> THEN l1
               ELSE Grow(s1[Len(s1)], SubSeq(s1, 1, Len(s1) - 1), l1, label_num)
        RECURSIVE Scan(_, _, _)
        Scan(i, labels, label_num) ==
            IF i > n THEN labels
            ELSE IF labels[i] # -1 \/ ~IsCore(rows, i, eps, min_samples)
                 THEN Scan(i + 1, labels, label_num)
                 ELSE Scan(i + 1, Grow(i, << >>, labels, label_num), label_num + 1)
    IN Scan(1, [i \in 1..n |-> -1], 0)

\* DBSCAN(eps, min_samples, ...).fit(coords): the parameters are validated first
\* (eps > 0, min_samples >= 1), then the array (at least one sample).
detect_hotspots_dbscan(data, eps, min_samples) ==
    IF ~HasCoords(data) THEN Raises("KeyError")
    ELSE IF eps <= 0 \/ min_samples < 1 THEN Raises("InvalidParameterError")
    ELSE IF data.rows = << >> THEN Raises("ValueError")
    ELSE Labeled(WithLabels(data.rows, DbscanLabels(data.rows, eps, min_samples)))

----------------------------------------------------------------------------
(* ml_module.py: detect_hotspots_kmeans *)

MaxIter == 300           \* KMeans' max_iter (the default the call leaves in place)

\* A cluster centre as exact sums: the point (lat / cnt, lon / cnt).
PointCenter(r) == [lat |-> r.latitude, lon |-> r.longitude, cnt |-> 1]

\* Squared Euclidean distance from row r to centre c, times c.cnt^2.
SqNum(r, c) == (r.latitude * c.cnt - c.lat) * (r.latitude * c.cnt - c.lat)
               + (r.longitude * c.cnt - c.lon) * (r.longitude * c.cnt - c.lon)

\* r is strictly closer to centre a than to centre b.
Closer(r, a, b) == SqNum(r, a) * b.cnt * b.cnt < SqNum(r, b) * a.cnt * a.cnt

SameCenters(A, B) ==
    \A j \in DOMAIN A : A[j].lat * B[j].cnt = B[j].lat * A[j].cnt
                        /\ A[j].lon * B[j].cnt = B[j].lon * A[j].cnt

\* The i-th draw of a random stream, reduced to 0..m-1.
Draw(stream, i, m) == (stream + i - 1) % m

\* random_state=None: the process-wide stream, which every fit advances.
RandomStateGlobal(seeded, global) == [stream |-> global, global_after |-> global + 1]

\* random_state=42: every fit starts a fresh RandomState(42) and leaves the
\* process-wide stream alone.
RandomStateOfFit(seeded, global) == [stream |-> seeded, global_after |-> global]

\* init='k-means++': the first centre is a row drawn from all rows; each further one
\* is drawn among the rows at positive distance from the centres chosen so far
\* (probability proportional to the squared distance); when there is none left the
\* search over an all-zero cumulative sum returns row 0.
InitCenters(rows, n_clusters, stream) ==
    LET RECURSIVE Pick(_, _)
        Pick(chosen, i) ==
            IF i > n_clusters THEN chosen
            ELSE LET cands == IF i = 1 THEN DOMAIN rows
                              ELSE {r \in DOMAIN rows : \A c \in Range(chosen) :
                                       SqNum(rows[r], PointCenter(rows[c])) > 0}
                     order == Ascending(cands)
                     next == IF cands = {} THEN 1
                             ELSE order[Draw(stream, i, Len(order)) + 1]
                 IN Pick(Append(chosen, next), i + 1)
        picked == Pick(<< >>, 1)
    IN [j \in 1..n_clusters |-> PointCenter(rows[picked[j]])]

\* E-step: each row goes to its nearest centre, the first one among equals (argmin).
\* Labels count from 0.
Nearest(r, centers) ==
    CHOOSE j \in DOMAIN centers :
        \A l \in DOMAIN centers : l # j => IF l < j THEN Closer(r, centers[j], centers[l])
                                                   ELSE ~Closer(r, centers[l], centers[j])

EStep(rows, centers) == [i \in DOMAIN rows |-> Nearest(rows[i], centers) - 1]

\* _relocate_empty_clusters_dense: the idx-th empty cluster takes the idx-th farthest
\* row (from its own old centre) as its centre; the row leaves the sums of the
\* cluster it was assigned to. Among equally far rows the higher index goes first
\* (the partition that selects the farthest rows leaves equal elements in place).
Relocate(rows, centers_old, labels, sums) ==
    LET empties == Ascending({j \in DOMAIN sums : sums[j].cnt = 0})
        own(i) == centers_old[labels[i] + 1]
        Farther(a, b) == SqNum(rows[a], own(a)) * own(b).cnt * own(b).cnt
                         > SqNum(rows[b], own(b)) * own(a).cnt * own(a).cnt
        RECURSIVE FarOrder(_)
        FarOrder(S) ==
            IF S = {} THEN << >>
            ELSE LET f == CHOOSE a \in S : \A b \in S \ {a} :
                              Farther(a, b) \/ (~Farther(b, a) /\ a > b)
                 IN <<f>> \o FarOrder(S \ {f})
        far == FarOrder(DOMAIN rows)
        RECURSIVE Move(_, _)
        Move(idx, acc) ==
            IF idx > Len(empties) THEN acc
            ELSE LET new == empties[idx]
                     row == rows[far[idx]]
                     old == labels[far[idx]] + 1
                     a1 == [acc EXCEPT ![old] = [lat |-> @.lat - row.latitude,
                                                 lon |-> @.lon - row.longitude,
                                                 cnt |-> @.cnt - 1]]
                 IN Move(idx + 1, [a1 EXCEPT ![new] = PointCenter(row)])
    IN Move(1, sums)

\* M-step: the new centres are the means of the rows of each label, after the empty
\* clusters were relocated. A cluster left without weight is not averaged: its
\* centre stays at the origin of the centred data, the mean of all rows.
MStep(rows, centers_old, labels) ==
    LET sums == [j \in DOMAIN centers_old |->
                    [lat |-> SumSeq([i \in DOMAIN rows |->
                                IF labels[i] = j - 1 THEN rows[i].latitude ELSE 0]),
                     lon |-> SumSeq([i \in DOMAIN rows |->
                                IF labels[i] = j - 1 THEN rows[i].longitude ELSE 0]),
                     cnt |-> Cardinality({i \in DOMAIN rows : labels[i] = j - 1})]]
        moved == Relocate(rows, centers_old, labels, sums)
        mean == [lat |-> SumSeq([i \in DOMAIN rows |-> rows[i].latitude]),
                 lon |-> SumSeq([i \in DOMAIN rows |-> rows[i].longitude]),
                 cnt |-> Len(rows)]
    IN [j \in DOMAIN moved |-> IF moved[j].cnt > 0 THEN moved[j] ELSE mean]

\* _kmeans_single_lloyd: iterate until the labels repeat (strict convergence), the
\* centres stop moving (tol; on these inputs: do not move) or max_iter is reached;
\* without strict convergence the labels are recomputed from the final centres.
\* An iteration is a function of (centers, labels_old) alone, so when that pair
\* recurs with period p the loop would only repeat itself: `seen` holds the pairs
\* of the earlier iterations and the evaluation skips whole periods, which leaves
\* the result of the max_iter iterations unchanged.
KMeansLabels(rows, n_clusters, stream) ==
    LET RECURSIVE Lloyd(_, _, _, _)
        Lloyd(centers, labels_old, iter, seen) ==
            LET hits == {j \in DOMAIN seen : seen[j] = <<centers, labels_old>>}
                labels == EStep(rows, centers)
                centers_new == MStep(rows, centers, labels)
            IN IF hits # {}
               THEN LET p == Len(seen) + 1 - SetMax(hits)
                    IN Lloyd(centers, labels_old,
                             iter + ((MaxIter - 1 - iter) \div p) * p, << >>)
               ELSE IF labels = labels_old THEN labels
               ELSE IF SameCenters(centers_new, centers) \/ iter + 1 >= MaxIter
                    THEN EStep(rows, centers_new)
                    ELSE Lloyd(centers_new, labels, iter + 1,
                               Append(seen, <<centers, labels_old>>))
    IN Lloyd(InitCenters(rows, n_clusters, stream), [i \in DOMAIN rows |-> -1], 0, << >>)

\* KMeans(n_clusters, random_state=42, n_init='auto').fit(coords): the parameters are
\* validated first (n_clusters >= 1), then the array (at least one sample, and at
\* least n_clusters samples).
detect_hotspots_kmeans(data, n_clusters, stream) ==
    IF ~HasCoords(data) THEN Raises("KeyError")
    ELSE IF n_clusters < 1 THEN Raises("InvalidParameterError")
    ELSE IF data.rows = << >> THEN Raises("ValueError")
    ELSE IF Len(data.rows) < n_clusters THEN Raises("ValueError")
    ELSE Labeled(WithLabels(data.rows, KMeansLabels(data.rows, n_clusters, stream)))

----------------------------------------------------------------------------
(* report_generator.py: the hotspot table of the report *)

TopN == 5                \* nlargest(5)

\* hotspot_data.groupby('cluster').size().nlargest(5), merged with the centroids
\* (kept as exact sums): the largest clusters first, the lower label first among
\* equals.
TopHotspots(hotspot_data) ==
    LET ids == {hotspot_data[i].cluster : i \in DOMAIN hotspot_data}
        size(c) == Cardinality({i \in DOMAIN hotspot_data : hotspot_data[i].cluster = c})
        RECURSIVE Largest(_, _)
        Largest(S, n) ==
            IF S = {} \/ n = 0 THEN << >>
            ELSE LET c == CHOOSE a \in S : \A b \in S \ {a} :
                              size(a) > size(b) \/ (size(a) = size(b) /\ a < b)
                 IN <<[cluster |-> c,
                       crime_count |-> size(c),
                       latitude |-> <<SumSeq([i \in DOMAIN hotspot_data |->
                                        IF hotspot_data[i].cluster = c
                                        THEN hotspot_data[i].latitude ELSE 0]), size(c)>>,
                       longitude |-> <<SumSeq([i \in DOMAIN hotspot_data |->
                                        IF hotspot_data[i].cluster = c
                                        THEN hotspot_data[i].longitude ELSE 0]), size(c)>>]>>
                    \o Largest(S \ {c}, n - 1)
    IN Largest(ids, TopN)

\* create_report: the summary section and the hotspot table (the charts are images
\* of the filtered data and are left out).
create_report(filtered_data, hotspot_data, date_range, crime_types) ==
    [total_crimes |-> Len(filtered_data),
     date_range |-> date_range,
     crime_types |-> crime_types,
     hotspots |-> TopHotspots(hotspot_data)]

----------------------------------------------------------------------------
(* app.py: load_data *)

\* df.columns.str.lower().str.replace(' ', '_') on the column names that occur.
NormalizeColumn(c) ==
    CASE c = "Latitude" -> "latitude"
      [] c = "Longitude" -> "longitude"
      [] c = "Crime Type" -> "crime_type"
      [] c = "Date/Time" -> "date/time"
      [] OTHER -> c

RequiredCols == {"latitude", "longitude", "crime_type", "date/time"}

\* The uploaded files. A cell is an optional: None is a missing coordinate (NaN) or
\* a date that does not parse (NaT).
RawCell(lat, type, dt) == [latitude |-> lat, longitude |-> Some(0), crime_type |-> type, datetime |-> dt]
FullHeader == {"Latitude", "Longitude", "Crime Type", "Date/Time"}
FileContent(content) ==
    CASE content = "long" ->
            [columns |-> FullHeader,
             rows |-> <<RawCell(Some(0), "theft", Some(0)),
                        RawCell(None, "theft", Some(HoursPerDay)),
                        RawCell(Some(1), "theft", Some((MinSeriesLen - 1) * HoursPerDay + 1)),
                        RawCell(Some(3), "assault", Some(2)),
                        RawCell(Some(1), "assault", None)>>]
      [] content = "short" ->
            [columns |-> FullHeader,
             rows |-> <<RawCell(Some(0), "theft", Some(0)),
                        RawCell(Some(0), "assault", Some(HoursPerDay))>>]
      [] OTHER ->
            [columns |-> {"Latitude", "Longitude", "Crime Type"}, rows |-> << >>]

Files == {[name |-> "a.csv", content |-> "long"],
          [name |-> "a.csv", content |-> "short"],
          [name |-> "c.csv", content |-> "bad"]}

\* load_data: None when a required column is missing; otherwise the rows with
\* coordinates and a date that parses.
load_data(file) ==
    LET raw == FileContent(file.content)
        Complete(r) == ~IsNone(r.latitude) /\ ~IsNone(r.longitude) /\ ~IsNone(r.datetime)
        kept == SelectSeq(raw.rows, Complete)
    IN IF ~(RequiredCols \subseteq {NormalizeColumn(c) : c \in raw.columns}) THEN None
       ELSE Some([i \in DOMAIN kept |->
                    RawRow(Get(kept[i].latitude), Get(kept[i].longitude),
                           kept[i].crime_type, Get(kept[i].datetime))])

----------------------------------------------------------------------------
(* app.py: the main controller and main_dashboard_view *)

ForecastDaysMin == 7     \* st.slider("Days to Forecast", 7, 90, 30)

\* The widget values the model lets the user pick.
EpsChoices == {1}
MinSamplesChoices == {2, 3}
KChoices == {2, 3}
AnalysisChoices ==
    [type : {"DBSCAN"}, eps : EpsChoices, min_samples : MinSamplesChoices, n_clusters : {0}]
    \cup [type : {"K-Means"}, eps : {0}, min_samples : {0}, n_clusters : KChoices]

\* The session keys after login (lines 249-252).
FreshSession == [username |-> Some("user"), crime_data |-> None, hotspot_clusters |-> None,
                 pdf_data |-> None, uploaded_file_name |-> None]

\* @st.cache_data: an entry per distinct argument. An uploaded file is hashed by its
\* name and its bytes (and its read position, which is the start for a fresh upload).
EmptyCache == {}
CacheKey(file) == <<file.name, file.content>>
CacheHits(cache, file) == {e \in cache : e.key = CacheKey(file)}

\* load_data as the script calls it: the stored value on a hit, the computed one
\* otherwise.
cached_load_data(cache, file) ==
    IF CacheHits(cache, file) # {}
    THEN (CHOOSE e \in CacheHits(cache, file) : TRUE).value
    ELSE load_data(file)

\* The cache after that call: a miss stores the computed value.
CacheStore(cache, file) ==
    IF CacheHits(cache, file) # {} THEN cache
    ELSE cache \cup {[key |-> CacheKey(file), value |-> load_data(file)]}

\* Lines 263-267: a file whose name differs from the remembered one is loaded and
\* the analysis results are reset.
Controller(ss, file, cache) ==
    IF ~IsNone(file) /\ ss.uploaded_file_name # Some(Get(file).name)
    THEN [ss EXCEPT !.crime_data = cached_load_data(cache, Get(file)),
                    !.uploaded_file_name = Some(Get(file).name),
                    !.hotspot_clusters = None,
                    !.pdf_data = None]
    ELSE ss

\* The cache after the upload check.
ControllerCache(ss, file, cache) ==
    IF ~IsNone(file) /\ ss.uploaded_file_name # Some(Get(file).name)
    THEN CacheStore(cache, Get(file))
    ELSE cache

\* The sidebar filters: the crime types and the date range within the data's dates.
FilterChoices(crime_data) ==
    LET dates == {DateOf(crime_data[i].datetime) : i \in DOMAIN crime_data}
        types == {crime_data[i].crime_type : i \in DOMAIN crime_data}
    IN {f \in [crime_types : SUBSET types, start_date : dates, end_date : dates] :
            f.start_date <= f.end_date}

\* Lines 97-101.
FilteredData(crime_data, f) ==
    LET Keep(r) == /\ r.crime_type \in f.crime_types
                   /\ DateOf(r.datetime) >= f.start_date
                   /\ DateOf(r.datetime) <= f.end_date
    IN SelectSeq(crime_data, Keep)

\* A variant that stores every labeled row.
NonNoiseUnfiltered(hotspot_data) == hotspot_data

\* hotspot_data[hotspot_data['cluster'] != -1]
NonNoise(hotspot_data) ==
    LET Clustered(r) == r.cluster # -1
    IN SelectSeq(hotspot_data, Clustered)

\* A variant that drops the stored results before the detector runs.
RunHotspotAnalysisClearing(ss, filtered_data, analysis, stream) ==
    IF filtered_data = << >>
    THEN [ss |-> ss, outcome |-> "empty_filter", labeled |-> 0]
    ELSE LET res == IF analysis.type = "DBSCAN"
                    THEN detect_hotspots_dbscan(Frame(filtered_data), analysis.eps,
                                                analysis.min_samples)
                    ELSE detect_hotspots_kmeans(Frame(filtered_data), analysis.n_clusters,
                                                stream)
         IN IF ~IsNone(res.raised)
            THEN [ss |-> [ss EXCEPT !.hotspot_clusters = None, !.pdf_data = None],
                  outcome |-> "exception", labeled |-> 0]
            ELSE [ss |-> [ss EXCEPT !.hotspot_clusters = Some(NonNoise(Get(res.data))),
                                    !.pdf_data = None],
                  outcome |-> "stored", labeled |-> Len(Get(res.data))]

\* Lines 120-129, "Run Hotspot Analysis": nothing happens on an empty filtered table;
\* an exception of the detector ends the script run before anything is stored.
RunHotspotAnalysis(ss, filtered_data, analysis, stream) ==
    IF filtered_data = << >>
    THEN [ss |-> ss, outcome |-> "empty_filter", labeled |-> 0]
    ELSE LET res == IF analysis.type = "DBSCAN"
                    THEN detect_hotspots_dbscan(Frame(filtered_data), analysis.eps,
                                                analysis.min_samples)
                    ELSE detect_hotspots_kmeans(Frame(filtered_data), analysis.n_clusters,
                                                stream)
         IN IF ~IsNone(res.raised)
            THEN [ss |-> ss, outcome |-> "exception", labeled |-> 0]
            ELSE [ss |-> [ss EXCEPT !.hotspot_clusters = Some(NonNoise(Get(res.data))),
                                    !.pdf_data = None],
                  outcome |-> "stored", labeled |-> Len(Get(res.data))]

\* Lines 146-150 and 168-172: the forecasting and reporting controls are rendered
\* only for a stored, non-empty assignment.
HasHotspots(ss) == ~IsNone(ss.hotspot_clusters) /\ Get(ss.hotspot_clusters) # << >>

\* Line 151: the selectable hotspot ids.
ClusterOptions(ss) ==
    IF HasHotspots(ss)
    THEN {Get(ss.hotspot_clusters)[i].cluster : i \in DOMAIN Get(ss.hotspot_clusters)}
    ELSE {}

\* Lines 157-164: the chart is drawn when a forecast came back, the error message
\* otherwise.
ForecastOutcome(ret) ==
    IF ~IsNone(ret.raised) THEN "exception"
    ELSE IF ~IsNone(ret.forecast_df) THEN "forecast_shown" ELSE "error_shown"

\* What a rerun records: the interaction, its outcome, the library's behaviour during
\* a forecast, and the number of rows the detector labeled.
View(op, outcome, lib, labeled) == [op |-> op, outcome |-> outcome, lib |-> lib, labeled |-> labeled]

----------------------------------------------------------------------------
(* Direct invocation of forecast_hotspot_trends on bounded inputs *)

FcTimes == {d * HoursPerDay + h : d \in DaySamples, h \in HourSamples}
FcLabels == {0, 1}
FcRows == {Row(0, 0, "theft", t, c) : t \in FcTimes, c \in FcLabels}
FcKey(r) == r.datetime * 2 + r.cluster

\* Labeled tables of at most MaxObs rows; the order of the rows does not matter to
\* resample, so one order per multiset of rows is enumerated.
FcTables ==
    UNION {{s \in [1..n -> FcRows] : \A i \in 1..(n - 1) : FcKey(s[i]) <= FcKey(s[i + 1])}
           : n \in 0..MaxObs}

\* The state of a process in which no dashboard session runs.
NoSession == [username |-> None, crime_data |-> None, hotspot_clusters |-> None,
              pdf_data |-> None, uploaded_file_name |-> None]
NoView == View("none", "none", "none", 0)
NoInput == [fn |-> "none"]
NoSignUp == << >>

InitForecast ==
    /\ session_state = NoSession
    /\ uploaded_file = None
    /\ view = NoView
    /\ seed_stream = 0
    /\ np_global = 0
    /\ data_cache = EmptyCache
    /\ users_collection = << >>
    /\ signup = NoSignUp
    /\ inp \in [fn : {"forecast_hotspot_trends"}, hotspot_data : FcTables,
                cluster_id : FcLabels \cup {2}, forecast_days : 1..MaxHorizon]
    /\ out = << >>

CallForecast ==
    /\ inp.fn = "forecast_hotspot_trends"
    /\ out = << >>
    /\ \E lib \in LibOutcomes :
          out' = <<[lib |-> lib,
                    ret |-> forecast_hotspot_trends(inp.hotspot_data, inp.cluster_id,
                                                    inp.forecast_days, lib)]>>
    /\ UNCHANGED <<session_state, uploaded_file, view, seed_stream, np_global, data_cache, inp, users_collection, signup>>

SpecForecast == InitForecast /\ [][CallForecast]_vars

----------------------------------------------------------------------------
(* Properties of forecast_hotspot_trends (under SpecForecast) *)

\* The rows of the invoked table that carry the requested label, and their dates.
FcClusterRows == {j \in DOMAIN inp.hotspot_data : inp.hotspot_data[j].cluster = inp.cluster_id}
FcDates == {DateOf(inp.hotspot_data[j].datetime) : j \in FcClusterRows}
FcSpan == IF FcClusterRows = {} THEN 0 ELSE SetMax(FcDates) - SetMin(FcDates) + 1
FcCalled == inp.fn = "forecast_hotspot_trends" /\ out # << >>
FcSeries == LET InCluster(r) == r.cluster = inp.cluster_id
            IN DailyCounts(SelectSeq(inp.hotspot_data, InCluster))
Unavailable == [raised |-> None, history_df |-> None, forecast_df |-> None]

\* C1: a cluster whose Daily Series has fewer than 14 entries (0 included) gets the
\* "unavailable" result (None, None) and no exception escapes, whatever the table,
\* the label, the horizon and the library's behaviour.
C1_ShortSeriesUnavailable ==
    (FcCalled /\ FcSpan < MinSeriesLen) => out[1].ret = Unavailable

\* C1 witness: a cluster spanning 13 days, a library that would have converged,
\* and the call returned (None, None).
C1_Witness ==
    /\ FcCalled
    /\ FcSpan = MinSeriesLen - 1
    /\ out[1].lib.kind = "converged"
    /\ out[1].ret = Unavailable

\* C2: for a non-empty cluster the Daily Series has one entry per calendar day from
\* the earliest to the latest observation day inclusive (length = day difference + 1),
\* each entry counts that day's observations (0 when there is none), the counts sum
\* to the number of observations of the cluster, and it is the history returned.
C2_DailySeriesShape ==
    (inp.fn = "forecast_hotspot_trends" /\ FcClusterRows # {}) =>
        /\ Len(FcSeries) = SetMax(FcDates) - SetMin(FcDates) + 1
        /\ \A i \in DOMAIN FcSeries :
              /\ FcSeries[i].datetime = (SetMin(FcDates) + i - 1) * HoursPerDay
              /\ FcSeries[i].crime_count =
                    Cardinality({j \in FcClusterRows :
                        DateOf(inp.hotspot_data[j].datetime) = SetMin(FcDates) + i - 1})
        /\ SumSeq([i \in DOMAIN FcSeries |-> FcSeries[i].crime_count]) = Cardinality(FcClusterRows)
        /\ (out # << >> /\ ~IsNone(out[1].ret.history_df)) => Get(out[1].ret.history_df) = FcSeries

\* C2 witness: a returned history of at least 14 days holding a day with count 0,
\* built from two observations of the cluster.
C2_Witness ==
    /\ FcCalled
    /\ ~IsNone(out[1].ret.history_df)
    /\ Cardinality(FcClusterRows) = 2
    /\ \E i \in DOMAIN Get(out[1].ret.history_df) : Get(out[1].ret.history_df)[i].crime_count = 0

\* C6: a returned forecast has exactly forecast_days entries, entry i is dated i days
\* after the last day of the Daily Series, and lower_ci <= forecast <= upper_ci.
C6_ForecastShape ==
    (FcCalled /\ ~IsNone(out[1].ret.forecast_df)) =>
        LET f == Get(out[1].ret.forecast_df)
        IN /\ FcSpan >= MinSeriesLen
           /\ Len(f) = inp.forecast_days
           /\ \A i \in DOMAIN f :
                 /\ DateOf(f[i].index) = SetMax(FcDates) + i
                 /\ f[i].lower_ci <= f[i].forecast
                 /\ f[i].forecast <= f[i].upper_ci

\* C6 witness: a forecast of MaxHorizon days with a proper interval was returned.
C6_Witness ==
    /\ FcCalled
    /\ ~IsNone(out[1].ret.forecast_df)
    /\ inp.forecast_days = MaxHorizon
    /\ out[1].lib.se > 0
    /\ Len(Get(out[1].ret.forecast_df)) = MaxHorizon

\* C10 as stated: a label that no observation carries fails with EmptyClusterError,
\* an outcome different from the "no forecast available" result.
C10_EmptyClusterError ==
    (FcCalled /\ FcClusterRows = {}) =>
        /\ out[1].ret.raised = Some("EmptyClusterError")
        /\ out[1].ret # Unavailable

\* C10 amended: a label that no observation carries yields an empty Daily Series and
\* the call returns (None, None) without raising: the very result of "no forecast
\* available".
C10_EmptyClusterUnavailable ==
    (FcCalled /\ FcClusterRows = {}) =>
        /\ FcSeries = << >>
        /\ IsNone(out[1].ret.raised)
        /\ IsNone(out[1].ret.history_df) /\ IsNone(out[1].ret.forecast_df)

\* C10 witness: a non-empty table, none of whose rows carries the requested label.
C10_Witness ==
    /\ FcCalled
    /\ inp.hotspot_data # << >>
    /\ FcClusterRows = {}
    /\ out[1].ret = Unavailable

----------------------------------------------------------------------------
(* Direct invocation of the detectors on bounded inputs *)

DetCoords == (0..MaxCoord) \cup {Turn}
DetRows == {RawRow(x, 0, "theft", 0) : x \in DetCoords}
DetTables == UNION {[1..n -> DetRows] : n \in 0..MaxPts}
\* Frames with both coordinate columns, and frames that lack one of them.
DetFrames ==
    {Frame(t) : t \in DetTables}
    \cup {[columns |-> AllColumns \ {c}, rows |-> [i \in 1..n |-> RawRow(0, 0, "theft", 0)]]
           : c \in {"latitude", "longitude"}, n \in 0..MaxPts}

InitDetector ==
    /\ session_state = NoSession
    /\ uploaded_file = None
    /\ view = NoView
    /\ np_global = 0
    /\ data_cache = EmptyCache
    /\ users_collection = << >>
    /\ signup = NoSignUp
    /\ out = << >>
    /\ \/ /\ inp \in [fn : {"detect_hotspots_dbscan"}, data : DetFrames,
                        eps : 0..MaxEps, min_samples : 0..MaxMinSamples]
          /\ seed_stream = 0
       \/ /\ inp \in [fn : {"detect_hotspots_kmeans"}, data : DetFrames, n_clusters : 0..MaxK]
          /\ seed_stream \in 0..(NumStreams - 1)

CallDbscan ==
    /\ inp.fn = "detect_hotspots_dbscan"
    /\ out = << >>
    /\ out' = <<detect_hotspots_dbscan(inp.data, inp.eps, inp.min_samples)>>
    /\ UNCHANGED <<session_state, uploaded_file, view, seed_stream, np_global, data_cache, inp, users_collection, signup>>

\* The same input is fitted twice in a row.
CallKmeans ==
    /\ inp.fn = "detect_hotspots_kmeans"
    /\ Len(out) < 2
    /\ LET rs == RandomStateOfFit(seed_stream, np_global)
       IN /\ out' = Append(out, detect_hotspots_kmeans(inp.data, inp.n_clusters, rs.stream))
          /\ np_global' = rs.global_after
    /\ UNCHANGED <<session_state, uploaded_file, view, seed_stream, data_cache, inp, users_collection, signup>>

NextDetector == CallDbscan \/ CallKmeans

SpecDetector == InitDetector /\ [][NextDetector]_vars

----------------------------------------------------------------------------
(* Properties of the detectors (under SpecDetector) *)

DbLabeled == inp.fn = "detect_hotspots_dbscan" /\ out # << >> /\ IsNone(out[1].raised)
DetLabel(k, i) == Get(out[k].data)[i].cluster
DetDelta(i, j) == Abs(inp.data.rows[i].latitude - inp.data.rows[j].latitude)
\* Great-circle distance of two points on one meridian, coordinates in degrees: the
\* angle |dlat| degrees, that is DetDelta * pi / 180 units, compared with eps units
\* (pi taken as 355/113; no product of the model comes near the threshold).
DetWithinGreatCircle(i, j) == DetDelta(i, j) * 355 <= inp.eps * 180 * 113
DetOthersGC(i) == {j \in DOMAIN inp.data.rows : j # i /\ DetWithinGreatCircle(i, j)}
DetCoreOthersGC(i) == Cardinality(DetOthersGC(i)) >= inp.min_samples
\* The distance the detector works with: the coordinate difference taken modulo Turn.
DetWithin(i, j) ==
    \E m \in 0..((DetDelta(i, j) \div Turn) + 1) :
        Abs(DetDelta(i, j) - m * Turn) <= inp.eps
DetOthers(i) == {j \in DOMAIN inp.data.rows : j # i /\ DetWithin(i, j)}
DetCoreSelf(i) == Cardinality(DetOthers(i)) + 1 >= inp.min_samples

\* C7, as stated: a point is labeled -1 iff it has fewer than min_neighbors other
\* points within radius under great-circle distance and is not within radius of a
\* point that has at least min_neighbors other points within radius.
C7_NoiseIffFewOthers ==
    DbLabeled =>
        \A i \in DOMAIN inp.data.rows :
            (DetLabel(1, i) = -1) <=>
                (~DetCoreOthersGC(i) /\ ~\E j \in DetOthersGC(i) : DetCoreOthersGC(j))

\* A consequence of C7 that does not depend on how the neighbours are counted: with
\* min_neighbors >= 2, a point that has no other point within radius under
\* great-circle distance is labeled -1.
C7_IsolatedIsNoise ==
    (DbLabeled /\ inp.min_samples >= 2) =>
        \A i \in DOMAIN inp.data.rows : DetOthersGC(i) = {} => DetLabel(1, i) = -1

\* The failing case of C7: with min_samples = 2, two points further apart than radius
\* under great-circle distance, and no third point near either, share cluster 0.
C7_Witness ==
    /\ DbLabeled
    /\ inp.min_samples = 2
    /\ \E i, j \in DOMAIN inp.data.rows :
          /\ i # j
          /\ DetOthersGC(i) = {} /\ DetOthersGC(j) = {}
          /\ DetLabel(1, i) = 0 /\ DetLabel(1, j) = 0

\* What detect_hotspots_dbscan computes: a point is labeled -1 iff fewer than
\* min_samples points lie within eps of it in the detector's distance, the point
\* itself counted, and it is not within eps of a point that has at least min_samples
\* such points; core points within eps of each other share their label; a border
\* point has the label of a core point within eps; every row is labeled.
DbscanComputes ==
    DbLabeled =>
        /\ Len(Get(out[1].data)) = Len(inp.data.rows)
        /\ \A i \in DOMAIN inp.data.rows :
              /\ (DetLabel(1, i) = -1) <=>
                    (~DetCoreSelf(i) /\ ~\E j \in DetOthers(i) : DetCoreSelf(j))
              /\ DetLabel(1, i) >= -1
              /\ \A j \in DetOthers(i) :
                    (DetCoreSelf(i) /\ DetCoreSelf(j)) => DetLabel(1, i) = DetLabel(1, j)
              /\ \A j \in DetOthers(i) :
                    (DetCoreSelf(j) /\ ~DetCoreSelf(i)) =>
                        \E c \in DetOthers(i) : DetCoreSelf(c) /\ DetLabel(1, i) = DetLabel(1, c)

KmLabeled(k) == inp.fn = "detect_hotspots_kmeans" /\ Len(out) >= k /\ IsNone(out[k].raised)
KmDistinctPoints == Cardinality({<<r.latitude, r.longitude>> : r \in Range(inp.data.rows)})

\* C8: with at least k distinct points, the assignment covers every observation, its
\* labels are exactly the k values 0..k-1 (never -1), and a second fit of the same
\* input with the same parameters returns the same assignment.
C8_KMeansLabels ==
    \A k \in 1..2 :
        (KmLabeled(k) /\ KmDistinctPoints >= inp.n_clusters) =>
            /\ Len(Get(out[k].data)) = Len(inp.data.rows)
            /\ \A i \in DOMAIN inp.data.rows :
                  Get(out[k].data)[i] = WithLabels(inp.data.rows, [x \in DOMAIN inp.data.rows |-> DetLabel(k, i)])[i]
            /\ {DetLabel(k, i) : i \in DOMAIN inp.data.rows} = 0..(inp.n_clusters - 1)
            /\ out[k] = out[1]

\* C8 witness: two fits of a table with duplicate points and k = MaxK distinct
\* positions, both labeled.
C8_Witness ==
    /\ KmLabeled(2)
    /\ inp.n_clusters = MaxK
    /\ KmDistinctPoints = MaxK
    /\ Len(inp.data.rows) > MaxK

DetCalled == inp.fn \in {"detect_hotspots_dbscan", "detect_hotspots_kmeans"} /\ out # << >>
DetBadInput == ~({"latitude", "longitude"} \subseteq inp.data.columns) \/ inp.data.rows = << >>
DetBadParams == IF inp.fn = "detect_hotspots_dbscan"
                THEN inp.eps <= 0 \/ inp.min_samples <= 0
                ELSE inp.n_clusters <= 0

\* C9 as stated: a table without coordinate columns or without rows fails with
\* InvalidInputError, out-of-range parameters fail with InvalidParameterError, and
\* neither produces an assignment.
C9_NamedErrors ==
    DetCalled =>
        /\ DetBadInput => out[1].raised = Some("InvalidInputError")
        /\ (DetBadParams /\ ~DetBadInput) => out[1].raised = Some("InvalidParameterError")
        /\ (DetBadInput \/ DetBadParams) => IsNone(out[1].data)

\* C9 amended: a table without a coordinate column fails with KeyError; otherwise
\* out-of-range parameters fail with the library's InvalidParameterError; otherwise
\* a table without rows fails with the library's ValueError; a failing call produces
\* no assignment.
C9_LibraryErrors ==
    DetCalled =>
        /\ ~({"latitude", "longitude"} \subseteq inp.data.columns)
              => out[1].raised = Some("KeyError")
        /\ ({"latitude", "longitude"} \subseteq inp.data.columns /\ DetBadParams)
              => out[1].raised = Some("InvalidParameterError")
        /\ ({"latitude", "longitude"} \subseteq inp.data.columns /\ ~DetBadParams
              /\ inp.data.rows = << >>)
              => out[1].raised = Some("ValueError")
        /\ (DetBadInput \/ DetBadParams) => (~IsNone(out[1].raised) /\ IsNone(out[1].data))
        /\ ~IsNone(out[1].raised) => IsNone(out[1].data)

\* C9 witness: a table with rows but without its latitude column, valid parameters,
\* and the call failed without an assignment.
C9_Witness ==
    /\ DetCalled
    /\ inp.data.rows # << >>
    /\ "latitude" \notin inp.data.columns
    /\ ~DetBadParams
    /\ out[1] = Raises("KeyError")

----------------------------------------------------------------------------
(* The dashboard session: one action per script rerun *)

LoggedIn == ~IsNone(session_state.username)

InitSession ==
    /\ session_state = NoSession
    /\ uploaded_file = None
    /\ view = NoView
    /\ seed_stream \in 0..(NumStreams - 1)
    /\ np_global = 0
    /\ data_cache = EmptyCache
    /\ users_collection = << >>
    /\ signup = NoSignUp
    /\ inp = NoInput
    /\ out = << >>

\* A successful login; the rerun initialises the session keys.
Login ==
    /\ ~LoggedIn
    /\ session_state' = FreshSession
    /\ view' = View("login", "ok", "none", 0)
    /\ UNCHANGED <<uploaded_file, seed_stream, np_global, data_cache, inp, out, users_collection, signup>>

\* Logout deletes every session key; the uploader is no longer rendered.
Logout ==
    /\ LoggedIn
    /\ session_state' = NoSession
    /\ uploaded_file' = None
    /\ view' = View("logout", "ok", "none", 0)
    /\ UNCHANGED <<seed_stream, np_global, data_cache, inp, out, users_collection, signup>>

\* The user puts a file into the uploader.
Upload ==
    /\ LoggedIn
    /\ \E f \in Files :
          /\ uploaded_file' = Some(f)
          /\ session_state' = Controller(session_state, Some(f), data_cache)
          /\ data_cache' = ControllerCache(session_state, Some(f), data_cache)
          /\ view' = View("upload",
                          IF IsNone(Controller(session_state, Some(f), data_cache).crime_data)
                          THEN "no_data" ELSE "dashboard", "none", 0)
    /\ UNCHANGED <<seed_stream, np_global, inp, out, users_collection, signup>>

\* The user removes the file from the uploader.
RemoveFile ==
    /\ LoggedIn
    /\ ~IsNone(uploaded_file)
    /\ uploaded_file' = None
    /\ session_state' = Controller(session_state, None, data_cache)
    /\ data_cache' = ControllerCache(session_state, None, data_cache)
    /\ view' = View("remove_file",
                    IF IsNone(session_state.crime_data) THEN "no_data" ELSE "dashboard",
                    "none", 0)
    /\ UNCHANGED <<seed_stream, np_global, inp, out, users_collection, signup>>

\* "Run Hotspot Analysis" with some filters, analysis type and parameters.
Analyse ==
    /\ LoggedIn
    /\ data_cache' = ControllerCache(session_state, uploaded_file, data_cache)
    /\ LET ss == Controller(session_state, uploaded_file, data_cache)
           rs == RandomStateOfFit(seed_stream, np_global)
       IN /\ ~IsNone(ss.crime_data)
          /\ \E filtered_data \in {FilteredData(Get(ss.crime_data), f) :
                                        f \in FilterChoices(Get(ss.crime_data))},
                a \in AnalysisChoices :
                \E r \in {RunHotspotAnalysis(ss, filtered_data, a, rs.stream)} :
                   /\ session_state' = r.ss
                   /\ view' = View("analysis", r.outcome, "none", r.labeled)
          /\ np_global' = rs.global_after
    /\ UNCHANGED <<uploaded_file, seed_stream, inp, out, users_collection, signup>>

\* "Forecast Trends" for a selectable hotspot.
Forecast ==
    /\ LoggedIn
    /\ data_cache' = ControllerCache(session_state, uploaded_file, data_cache)
    /\ LET ss == Controller(session_state, uploaded_file, data_cache)
       IN /\ ~IsNone(ss.crime_data)
          /\ HasHotspots(ss)
          /\ \E c \in ClusterOptions(ss), lib \in LibOutcomes :
                LET ret == forecast_hotspot_trends(Get(ss.hotspot_clusters), c,
                                                   ForecastDaysMin, lib)
                IN /\ session_state' = ss
                   /\ view' = View("forecast", ForecastOutcome(ret), lib.kind, 0)
    /\ UNCHANGED <<uploaded_file, seed_stream, np_global, inp, out, users_collection, signup>>

\* "Generate PDF Report" under some filters.
GenerateReport ==
    /\ LoggedIn
    /\ data_cache' = ControllerCache(session_state, uploaded_file, data_cache)
    /\ LET ss == Controller(session_state, uploaded_file, data_cache)
       IN /\ ~IsNone(ss.crime_data)
          /\ HasHotspots(ss)
          /\ \E f \in FilterChoices(Get(ss.crime_data)) :
                session_state' =
                    [ss EXCEPT !.pdf_data =
                        Some(create_report(FilteredData(Get(ss.crime_data), f),
                                           Get(ss.hotspot_clusters),
                                           <<f.start_date, f.end_date>>, f.crime_types))]
          /\ view' = View("report", "stored", "none", 0)
    /\ UNCHANGED <<uploaded_file, seed_stream, np_global, inp, out, users_collection, signup>>

Next ==
    \/ Login
    \/ Logout
    \/ Upload
    \/ RemoveFile
    \/ Analyse
    \/ Forecast
    \/ GenerateReport

Spec == InitSession /\ [][Next]_vars

----------------------------------------------------------------------------
(* Properties of the dashboard session *)

\* C3, as stated: whenever the seasonal model raised or did not converge during a
\* requested forecast, the dashboard shows the error message of an unavailable
\* forecast.
C3_FitFailureUnavailable ==
    (view.op = "forecast" /\ view.lib \in {"raises", "not_converged"})
        => view.outcome = "error_shown"

FailureOutcomes == {"empty_filter", "exception", "error_shown"}

\* C4: a rerun that ends in a failure (analysis on an empty filtered table, a detector
\* that raises, an unavailable forecast) leaves every session key as it was, the
\* observation table is still loaded so that an analysis can be requested again, and
\* after an unavailable forecast the forecasting controls are still rendered.
C4_FailureKeepsSession ==
    [][view'.outcome \in FailureOutcomes =>
          /\ session_state' = session_state
          /\ ~IsNone(session_state'.crime_data)
          /\ (view'.op = "forecast" => HasHotspots(session_state'))]_vars

\* A detector raised while an assignment and a report were stored.
C4_Witness ==
    /\ view.op = "analysis"
    /\ view.outcome = "exception"
    /\ HasHotspots(session_state)
    /\ ~IsNone(session_state.pdf_data)

\* C5: the stored assignment holds no observation labeled -1, -1 is not among the
\* selectable hotspots, and no row of a stored report's hotspot table is for -1.
C5_NoiseNeverHotspot ==
    /\ ~IsNone(session_state.hotspot_clusters) =>
          \A i \in DOMAIN Get(session_state.hotspot_clusters) :
              Get(session_state.hotspot_clusters)[i].cluster # -1
    /\ -1 \notin ClusterOptions(session_state)
    /\ ~IsNone(session_state.pdf_data) =>
          \A i \in DOMAIN Get(session_state.pdf_data).hotspots :
              Get(session_state.pdf_data).hotspots[i].cluster # -1

\* An analysis stored an assignment after dropping rows the detector labeled -1.
C5_Witness ==
    /\ view.op = "analysis"
    /\ view.outcome = "stored"
    /\ HasHotspots(session_state)
    /\ Len(Get(session_state.hotspot_clusters)) < view.labeled

\* C11, as stated: when the file in the uploader is replaced by a different file, the
\* page run that follows resets the stored assignment and the stored report to None.
C11_NewUploadClears ==
    [][(view'.op = "upload" /\ ~IsNone(uploaded_file) /\ uploaded_file' # uploaded_file)
          => /\ IsNone(session_state'.hotspot_clusters)
             /\ IsNone(session_state'.pdf_data)]_vars

\* The failing case of C11: the page run of an upload of the two-row file still
\* holds an assignment and a report computed from the three-row file.
C11_Witness ==
    /\ view.op = "upload"
    /\ Get(uploaded_file).content = "short"
    /\ HasHotspots(session_state)
    /\ \E i \in DOMAIN Get(session_state.hotspot_clusters) :
          Get(session_state.hotspot_clusters)[i].latitude = 1
    /\ ~IsNone(session_state.pdf_data)

\* Every cache entry holds what load_data computes for a file with the entry's key.
LoadCacheTransparent ==
    \A e \in data_cache : \A f \in Files : CacheKey(f) = e.key => e.value = load_data(f)

\* C12, as stated: whenever a file is in the uploader, the session's observation
\* table is the one that loading that file produces.
C12_TableIsLoadOfUpload ==
    (LoggedIn /\ ~IsNone(uploaded_file))
        => session_state.crime_data = load_data(Get(uploaded_file))

\* The failing case of C12: the uploader holds the two-row file and the session's
\* table is the three-row table of the file of the same name uploaded before it.
C12_Witness ==
    /\ LoggedIn
    /\ ~IsNone(uploaded_file)
    /\ Get(uploaded_file).content = "short"
    /\ session_state.uploaded_file_name = Some(Get(uploaded_file).name)
    /\ ~IsNone(session_state.crime_data)
    /\ Len(Get(session_state.crime_data)) = 3

\* A stored report goes with a stored, non-empty assignment, and its hotspot table
\* is the one computed from that assignment.
ReportMatchesAssignment ==
    ~IsNone(session_state.pdf_data) =>
        /\ HasHotspots(session_state)
        /\ Get(session_state.pdf_data).hotspots
              = TopHotspots(Get(session_state.hotspot_clusters))

\* C13, as stated: after every page run a stored report goes with a stored, non-empty
\* assignment from which its hotspot table was computed; a successful hotspot
\* analysis leaves no report stored; and neither does the replacement of the
\* uploader's file by a different file.
C13_ReportFromStoredAssignment ==
    [][/\ ~IsNone(session_state'.pdf_data) =>
             /\ HasHotspots(session_state')
             /\ Get(session_state'.pdf_data).hotspots
                   = TopHotspots(Get(session_state'.hotspot_clusters))
       /\ (view'.op = "analysis" /\ view'.outcome = "stored")
             => IsNone(session_state'.pdf_data)
       /\ (view'.op = "upload" /\ ~IsNone(uploaded_file) /\ uploaded_file' # uploaded_file)
             => IsNone(session_state'.pdf_data)]_vars

\* The failing case of C13: after the upload of the two-row file a report that counts
\* three observations is still stored.
C13_Witness ==
    /\ view.op = "upload"
    /\ Get(uploaded_file).content = "short"
    /\ ~IsNone(session_state.pdf_data)
    /\ Get(session_state.pdf_data).total_crimes = 3

----------------------------------------------------------------------------
(* db.py: sign_up called from concurrent sessions *)

NumSessions == 2         \* sessions that call sign_up, one call each

Sessions == 1..NumSessions
Usernames == {"", "a", "b"}
Passwords == {"", "p"}

\* get_password_hash: the stored value is a hash of the password, not the password.
get_password_hash(password) == <<"argon2", password>>

\* users_collection.find_one({"username": username}): a matching document or None.
find_one(collection, username) ==
    IF \E i \in DOMAIN collection : collection[i].username = username
    THEN Some(collection[CHOOSE i \in DOMAIN collection : collection[i].username = username])
    ELSE None

\* users_collection.insert_one(document): the collection has no unique index.
insert_one(collection, document) == Append(collection, document)

SignUpIdle == [pc |-> "idle", username |-> "", password |-> "", ret |-> FALSE]
SignUpAt(pc, username, password, ret) ==
    [pc |-> pc, username |-> username, password |-> password, ret |-> ret]

InitSignUp ==
    /\ session_state = NoSession
    /\ uploaded_file = None
    /\ view = NoView
    /\ seed_stream = 0
    /\ np_global = 0
    /\ data_cache = EmptyCache
    /\ inp = NoInput
    /\ out = << >>
    /\ users_collection = << >>
    /\ signup = [s \in Sessions |-> SignUpIdle]

\* Lines 38-39: the call starts; an empty username or password returns False.
SignUpCall(s) ==
    /\ signup[s].pc = "idle"
    /\ \E username \in Usernames, password \in Passwords :
          signup' = [signup EXCEPT ![s] =
                        IF username = "" \/ password = ""
                        THEN SignUpAt("done", username, password, FALSE)
                        ELSE SignUpAt("find_one", username, password, FALSE)]
    /\ UNCHANGED <<session_state, uploaded_file, view, seed_stream, np_global, data_cache,
                   inp, out, users_collection>>

\* Lines 40-41: the lookup; a document with the username returns False.
SignUpFindOne(s) ==
    /\ signup[s].pc = "find_one"
    /\ signup' = [signup EXCEPT ![s] =
                    IF ~IsNone(find_one(users_collection, signup[s].username))
                    THEN SignUpAt("done", signup[s].username, signup[s].password, FALSE)
                    ELSE SignUpAt("insert_one", signup[s].username, signup[s].password, FALSE)]
    /\ UNCHANGED <<session_state, uploaded_file, view, seed_stream, np_global, data_cache,
                   inp, out, users_collection>>

\* Lines 42-49: hash and insert, returning True; an exception of either returns False.
SignUpInsertOne(s) ==
    /\ signup[s].pc = "insert_one"
    /\ \E raised \in BOOLEAN :
          IF raised
          THEN /\ users_collection' = users_collection
               /\ signup' = [signup EXCEPT ![s] =
                    SignUpAt("done", signup[s].username, signup[s].password, FALSE)]
          ELSE /\ users_collection' =
                    insert_one(users_collection,
                               [username |-> signup[s].username,
                                password |-> get_password_hash(signup[s].password)])
               /\ signup' = [signup EXCEPT ![s] =
                    SignUpAt("done", signup[s].username, signup[s].password, TRUE)]
    /\ UNCHANGED <<session_state, uploaded_file, view, seed_stream, np_global, data_cache,
                   inp, out>>

NextSignUp ==
    \E s \in Sessions :
        \/ SignUpCall(s)
        \/ SignUpFindOne(s)
        \/ SignUpInsertOne(s)

SpecSignUp == InitSignUp /\ [][NextSignUp]_vars

----------------------------------------------------------------------------
(* Properties of the account store (under SpecSignUp) *)

SignUpDocs(username) ==
    {i \in DOMAIN users_collection : users_collection[i].username = username}
SignUpAccepted(username) ==
    {s \in Sessions : /\ signup[s].pc = "done"
                      /\ signup[s].ret
                      /\ signup[s].username = username}

\* C14, as stated: for every username the store holds at most one document and at
\* most one sign_up call for it has returned True.
C14_UniqueUsernames ==
    \A username \in Usernames :
        /\ Cardinality(SignUpDocs(username)) <= 1
        /\ Cardinality(SignUpAccepted(username)) <= 1

\* The failing case of C14: two sessions signed up the same username, both calls
\* returned True and the store holds two documents for it.
C14_Witness ==
    \E username \in Usernames \ {""} :
        /\ Cardinality(SignUpDocs(username)) = 2
        /\ Cardinality(SignUpAccepted(username)) = 2

\* Calls that do not overlap keep usernames unique: a call that starts its lookup
\* after a document for its username was inserted returns False and inserts nothing.
SignUpLookupSeesInserted ==
    [][\A s \in Sessions :
          (signup[s].pc = "find_one" /\ signup'[s].pc # "find_one"
              /\ SignUpDocs(signup[s].username) # {})
          => (signup'[s].pc = "done" /\ ~signup'[s].ret
              /\ users_collection' = users_collection)]_vars

====
